---- MODULE Spec2Model ----
(***************************************************************************)
(* A model of aioarango's cursor protocol (aioarango/cursor.py) and of the *)
(* document-handle resolution and the bulk document operations of its      *)
(* collection wrappers (aioarango/collection.py).                          *)
(*                                                                         *)
(* Optional values (Python's None) are sequences of length <= 1: None is   *)
(* <<>> and a present value v is <<v>>.  A response body is a record whose *)
(* DOMAIN holds exactly the keys that are present, so that                 *)
(* '"id" in data' is '"id" \in DOMAIN data'.                               *)
(***************************************************************************)
EXTENDS Integers, Sequences, FiniteSets, TLC

\* ------------------------------------------------------------------ bounds

\* Rows the server hands out over the life of one cursor.
MaxRows == 3
\* Rows in one response (the initial one or a continuation).
MaxBatch == 2
\* Requests one cursor sends before the model stops sending.
MaxRequests == 3
\* Characters in a document id or key given to a collection.
MaxLen == 4
\* Documents in one bulk call.
MaxDocs == 2
\* Tasks that call the same cursor concurrently.
MaxTasks == 2
\* Documents in one import call, and the largest batch size it is given.
MaxImport == 3

\* ----------------------------------------------------------------- helpers

None == <<>>
Some(v) == <<v>>

\* The rows lo+1 .. lo+n, in order: the server numbers the rows of a result
\* set consecutively, so every row is distinct and its position is its value.
RowsFrom(lo, n) == [i \in 1..n |-> lo + i]

\* {<<>>} and the one-key records k |-> v: an optional key of a body.
Opt(k, vals) == {<<>>} \cup {[x \in {k} |-> v] : v \in vals}

\* What a call hands back to its caller: a returned value or a raised
\* exception.  ret names the kind of value returned, row is the row for
\* ret = "row" (0 otherwise), exc is the exception raised ("" for none).
Return(tag) == [exc |-> "", ret |-> tag, row |-> 0]
ReturnRow(r) == [exc |-> "", ret |-> "row", row |-> r]
Raise(e) == [exc |-> e, ret |-> "", row |-> 0]

\* ------------------------------------------------------------------ cursor

VARIABLES
  coll,      \* the Collection object: _name and _id_prefix
  doc,       \* the document call on the collection and how far it has got
  cursor,    \* the Cursor object: its slots
  srvRows,   \* rows the server has handed out in successful responses
  requests,  \* the requests the cursor has sent, in order
  call,      \* the last call on the cursor, its arguments and its outcome
  resp,      \* the response to the request the last call sent (None if none)
  delivered, \* the rows handed to the caller, in order
  closed,    \* a close() has deleted the server-side cursor (returned True)
  stopped,   \* a next() has signalled exhaustion (StopAsyncIteration)
  tasks      \* per task: the call on the cursor it is suspended in, if any

cvars ==
  <<cursor, srvRows, requests, call, resp, delivered, closed, stopped, tasks>>
dvars == <<coll, doc>>
vars ==
  <<coll, doc, cursor, srvRows, requests, call, resp, delivered, closed,
    stopped, tasks>>

\* The tasks, and the state of tasks none of which is inside a call.
Tasks == 1..MaxTasks
Idle == [t \in Tasks |-> [pc |-> "idle", op |-> ""]]

\* The wire names of extra.stats and the names _update gives them.
StatsRename(k) ==
  CASE k = "writesExecuted" -> "modified"
    [] k = "writesIgnored" -> "ignored"
    [] k = "scannedFull" -> "scanned_full"
    [] k = "scannedIndex" -> "scanned_index"
    [] k = "executionTime" -> "execution_time"
    [] k = "httpRequests" -> "http_requests"
    [] OTHER -> k

\* stats with every wire name replaced by its public name, values kept
\* ('stats[new] = stats.pop(wire)': the wire key's value wins over a value
\* already stored under the public name).
RenameStats(stats) ==
  LET keys == {StatsRename(k) : k \in DOMAIN stats}
      wire(n) == {k \in DOMAIN stats : StatsRename(k) = n /\ k # n}
  IN [n \in keys |-> IF wire(n) # {} THEN stats[CHOOSE k \in wire(n) : TRUE]
                     ELSE stats[n]]

\* The slots after Cursor.__init__ and before its call of _update
\* (_has_more is first set by _update).
Fresh ==
  [id |-> None, count |-> None, cached |-> None, stats |-> None,
   profile |-> None, warnings |-> None, has_more |-> FALSE, batch |-> <<>>]

\* The extra block with 'self._profile = extra.get("profile")' and the
\* like: a key the block does not have resets the stored value.
_update_extra_reset(c, data) ==
  LET extra == IF "extra" \in DOMAIN data THEN data.extra ELSE <<>>
  IN [profile |-> IF "profile" \in DOMAIN extra
                    THEN Some(extra.profile) ELSE None,
      warnings |-> IF "warnings" \in DOMAIN extra
                     THEN Some(extra.warnings) ELSE None,
      stats |-> IF "stats" \in DOMAIN extra
                  THEN Some(RenameStats(extra.stats)) ELSE None]

\* Cursor._update, the extra block: profile, warnings and stats are each
\* overwritten when the block has them and kept when it has not.
_update_extra(c, data) ==
  LET extra == IF "extra" \in DOMAIN data THEN data.extra ELSE <<>>
  IN [profile |-> IF "profile" \in DOMAIN extra
                    THEN Some(extra.profile) ELSE c.profile,
      warnings |-> IF "warnings" \in DOMAIN extra
                     THEN Some(extra.warnings) ELSE c.warnings,
      stats |-> IF "stats" \in DOMAIN extra
                  THEN Some(RenameStats(extra.stats)) ELSE c.stats]

\* _update with 'self._batch = deque(data["result"])': the rows replace the
\* queue.
_update_replace(c, data) ==
  [id |-> IF "id" \in DOMAIN data THEN Some(data.id) ELSE c.id,
   count |-> IF "count" \in DOMAIN data THEN Some(data.count) ELSE c.count,
   cached |-> IF "cached" \in DOMAIN data THEN Some(data.cached) ELSE c.cached,
   has_more |-> data.hasMore,
   batch |-> data.result,
   profile |-> _update_extra(c, data).profile,
   warnings |-> _update_extra(c, data).warnings,
   stats |-> _update_extra(c, data).stats]

\* _update with 'self._count = data.get("count")' and the like: an absent
\* key resets the stored value.
_update_reset(c, data) ==
  [id |-> IF "id" \in DOMAIN data THEN Some(data.id) ELSE c.id,
   count |-> IF "count" \in DOMAIN data THEN Some(data.count) ELSE None,
   cached |-> IF "cached" \in DOMAIN data THEN Some(data.cached) ELSE None,
   has_more |-> data.hasMore,
   batch |-> c.batch \o data.result,
   profile |-> _update_extra(c, data).profile,
   warnings |-> _update_extra(c, data).warnings,
   stats |-> _update_extra(c, data).stats]

\* Cursor._update: merge a response body into the cursor.
_update(c, data) ==
  [id |-> IF "id" \in DOMAIN data THEN Some(data.id) ELSE c.id,
   count |-> IF "count" \in DOMAIN data THEN Some(data.count) ELSE c.count,
   cached |-> IF "cached" \in DOMAIN data THEN Some(data.cached) ELSE c.cached,
   has_more |-> data.hasMore,
   batch |-> c.batch \o data.result,
   profile |-> _update_extra(c, data).profile,
   warnings |-> _update_extra(c, data).warnings,
   stats |-> _update_extra(c, data).stats]

\* Cursor.empty
empty(c) == Len(c.batch) = 0

\* pop with deque.pop() for deque.popleft(): the back row is taken.
pop_right(c) ==
  IF Len(c.batch) = 0
    THEN [cur |-> c, out |-> Raise("CursorEmptyError"), sent |-> 0, fetches |-> 0]
    ELSE [cur |-> [c EXCEPT !.batch = SubSeq(@, 1, Len(@) - 1)],
          out |-> ReturnRow(c.batch[Len(c.batch)]), sent |-> 0, fetches |-> 0]

\* Cursor.pop: the cursor afterwards, the outcome and the requests sent.
pop(c) ==
  IF Len(c.batch) = 0
    THEN [cur |-> c, out |-> Raise("CursorEmptyError"), sent |-> 0, fetches |-> 0]
    ELSE [cur |-> [c EXCEPT !.batch = Tail(@)],
          out |-> ReturnRow(Head(c.batch)), sent |-> 0, fetches |-> 0]

\* fetch that tests the id after the request, not before it.
fetch_check_after(c, r) ==
  IF ~r.is_success
    THEN [cur |-> c, out |-> Raise("CursorNextError"), sent |-> 1, fetches |-> 1]
    ELSE IF c.id = None
      THEN [cur |-> c, out |-> Raise("CursorStateError"), sent |-> 1, fetches |-> 1]
      ELSE [cur |-> _update(c, r.body), out |-> Return("dict"),
            sent |-> 1, fetches |-> 1]

\* fetch that returns None when no id is set, as close does.
fetch_noop(c, r) ==
  IF c.id = None
    THEN [cur |-> c, out |-> Return("None"), sent |-> 0, fetches |-> 1]
    ELSE IF ~r.is_success
      THEN [cur |-> c, out |-> Raise("CursorNextError"), sent |-> 1, fetches |-> 1]
      ELSE [cur |-> _update(c, r.body), out |-> Return("dict"),
            sent |-> 1, fetches |-> 1]

\* fetch that gives the cursor up on a failed response: it clears has_more
\* before raising.
fetch_fail_stops(c, r) ==
  IF c.id = None
    THEN [cur |-> c, out |-> Raise("CursorStateError"), sent |-> 0, fetches |-> 1]
    ELSE IF ~r.is_success
      THEN [cur |-> [c EXCEPT !.has_more = FALSE],
            out |-> Raise("CursorNextError"), sent |-> 1, fetches |-> 1]
      ELSE [cur |-> _update(c, r.body), out |-> Return("dict"),
            sent |-> 1, fetches |-> 1]

\* Cursor.fetch: r is the response to the request (read only when the
\* request is sent).
fetch(c, r) ==
  IF c.id = None
    THEN [cur |-> c, out |-> Raise("CursorStateError"), sent |-> 0, fetches |-> 1]
    ELSE IF ~r.is_success
      THEN [cur |-> c, out |-> Raise("CursorNextError"), sent |-> 1, fetches |-> 1]
      ELSE [cur |-> _update(c, r.body), out |-> Return("dict"),
            sent |-> 1, fetches |-> 1]

\* next that tests has_more before the batch: rows still queued are not
\* returned once the server has no more.
next_stop_first(c, r) ==
  IF ~c.has_more
    THEN [cur |-> c, out |-> Raise("StopAsyncIteration"), sent |-> 0, fetches |-> 0]
  ELSE IF empty(c)
    THEN LET f == fetch(c, r)
         IN IF f.out.exc # ""
              THEN f
              ELSE [pop(f.cur) EXCEPT !.sent = f.sent, !.fetches = f.fetches]
  ELSE pop(c)

\* next that fetches whenever no row is queued, whatever has_more is.
next_always_fetch(c, r) ==
  IF empty(c)
    THEN LET f == fetch(c, r)
         IN IF f.out.exc # ""
              THEN f
              ELSE [pop(f.cur) EXCEPT !.sent = f.sent, !.fetches = f.fetches]
    ELSE pop(c)

\* next without the test of has_more: it fetches when no row is queued and
\* has_more is set, and pops otherwise.
next_no_stop(c, r) ==
  IF empty(c) /\ c.has_more
    THEN LET f == fetch(c, r)
         IN IF f.out.exc # ""
              THEN f
              ELSE [pop(f.cur) EXCEPT !.sent = f.sent, !.fetches = f.fetches]
    ELSE pop(c)

\* Cursor.next: fetches counts its calls of fetch.
next(c, r) ==
  IF empty(c)
    THEN IF ~c.has_more
      THEN [cur |-> c, out |-> Raise("StopAsyncIteration"), sent |-> 0, fetches |-> 0]
      ELSE LET f == fetch(c, r)
           IN IF f.out.exc # ""
                THEN f
                ELSE [pop(f.cur) EXCEPT !.sent = f.sent, !.fetches = f.fetches]
    ELSE pop(c)

\* close that raises CursorStateError when no id is set.
close_state_error(c, r, ignore_missing) ==
  IF c.id = None
    THEN [cur |-> c, out |-> Raise("CursorStateError"), sent |-> 0, fetches |-> 0]
  ELSE IF r.is_success
    THEN [cur |-> c, out |-> Return("True"), sent |-> 1, fetches |-> 0]
  ELSE IF r.status_code = 404 /\ ignore_missing
    THEN [cur |-> c, out |-> Return("False"), sent |-> 1, fetches |-> 0]
  ELSE [cur |-> c, out |-> Raise("CursorCloseError"), sent |-> 1, fetches |-> 0]

\* close whose ignore_missing swallows every failure, not only a 404.
close_ignore_all(c, r, ignore_missing) ==
  IF c.id = None
    THEN [cur |-> c, out |-> Return("None"), sent |-> 0, fetches |-> 0]
  ELSE IF r.is_success
    THEN [cur |-> c, out |-> Return("True"), sent |-> 1, fetches |-> 0]
  ELSE IF ignore_missing
    THEN [cur |-> c, out |-> Return("False"), sent |-> 1, fetches |-> 0]
  ELSE [cur |-> c, out |-> Raise("CursorCloseError"), sent |-> 1, fetches |-> 0]

\* Cursor.close: close changes no slot.
close(c, r, ignore_missing) ==
  IF c.id = None
    THEN [cur |-> c, out |-> Return("None"), sent |-> 0, fetches |-> 0]
  ELSE IF r.is_success
    THEN [cur |-> c, out |-> Return("True"), sent |-> 1, fetches |-> 0]
  ELSE IF r.status_code = 404 /\ ignore_missing
    THEN [cur |-> c, out |-> Return("False"), sent |-> 1, fetches |-> 0]
  ELSE [cur |-> c, out |-> Raise("CursorCloseError"), sent |-> 1, fetches |-> 0]

\* -------------------------------------------------------------- collection

\* Strings the collection inspects (names, ids, keys) are sequences of
\* characters.
Chars == {"a", "b", "/"}

\* Every string of at most n characters.
Strings(n) == UNION {[1..k -> Chars] : k \in 0..n}

\* "/" in s
HasSlash(s) == \E i \in 1..Len(s) : s[i] = "/"

\* s.startswith(p)
startswith(s, p) == Len(s) >= Len(p) /\ SubSeq(s, 1, Len(p)) = p

\* Collection.__init__
Collection(name) == [name |-> name, id_prefix |-> name \o <<"/">>]

\* The result of a resolution step: the value, or the exception raised.
Ok(v) == [exc |-> "", val |-> v]
ParseError == [exc |-> "DocumentParseError", val |-> <<>>]

\* _validate_id that compares with the name, not with the name and "/".
_validate_id_name_only(c, doc_id) ==
  IF ~startswith(doc_id, c.name) THEN ParseError ELSE Ok(doc_id)

\* Collection._validate_id
_validate_id(c, doc_id) ==
  IF ~startswith(doc_id, c.id_prefix) THEN ParseError ELSE Ok(doc_id)

\* _extract_id that prefers _key to _id.
_extract_id_key_first(c, body) ==
  IF "_key" \in DOMAIN body THEN Ok(c.id_prefix \o body._key)
  ELSE IF "_id" \in DOMAIN body THEN _validate_id(c, body._id)
  ELSE ParseError

\* Collection._extract_id
_extract_id(c, body) ==
  IF "_id" \in DOMAIN body THEN _validate_id(c, body._id)
  ELSE IF "_key" \in DOMAIN body THEN Ok(c.id_prefix \o body._key)
  ELSE ParseError

\* Request headers: a function from header names to values.
NoHeaders == <<>>
IfMatch(rev) == [h \in {"If-Match"} |-> rev]

\* A resolved reference: the handle and the headers, or the exception.
Prepared(id, headers) ==
  IF id.exc # "" THEN [exc |-> id.exc, handle |-> <<>>, headers |-> NoHeaders]
  ELSE [exc |-> "", handle |-> id.val, headers |-> headers]

\* Collection._prep_from_body
_prep_from_body(c, document, check_rev) ==
  LET doc_id == _extract_id(c, document.body)
  IN IF ~check_rev \/ "_rev" \notin DOMAIN document.body
       THEN Prepared(doc_id, NoHeaders)
       ELSE Prepared(doc_id, IfMatch(document.body._rev))

\* _prep_from_doc without the test for "/": every string is taken for a
\* key and prefixed.
_prep_from_doc_prefix_all(c, document, rev, check_rev) ==
  IF document.type = "dict"
    THEN LET doc_id == _extract_id(c, document.body)
             eff == IF rev # None /\ rev[1] # "" THEN rev
                    ELSE IF "_rev" \in DOMAIN document.body
                      THEN Some(document.body._rev) ELSE None
         IN IF ~check_rev \/ eff = None
              THEN Prepared(doc_id, NoHeaders)
              ELSE Prepared(doc_id, IfMatch(eff[1]))
    ELSE LET doc_id == Ok(c.id_prefix \o document.str)
         IN IF ~check_rev \/ rev = None
              THEN Prepared(doc_id, NoHeaders)
              ELSE Prepared(doc_id, IfMatch(rev[1]))

\* Collection._prep_from_doc.  'rev or document.get("_rev")' takes the
\* body's _rev when rev is None or the empty string.
_prep_from_doc(c, document, rev, check_rev) ==
  IF document.type = "dict"
    THEN LET doc_id == _extract_id(c, document.body)
             eff == IF rev # None /\ rev[1] # "" THEN rev
                    ELSE IF "_rev" \in DOMAIN document.body
                      THEN Some(document.body._rev) ELSE None
         IN IF ~check_rev \/ eff = None
              THEN Prepared(doc_id, NoHeaders)
              ELSE Prepared(doc_id, IfMatch(eff[1]))
    ELSE LET doc_id == IF HasSlash(document.str)
                         THEN _validate_id(c, document.str)
                         ELSE Ok(c.id_prefix \o document.str)
         IN IF ~check_rev \/ rev = None
              THEN Prepared(doc_id, NoHeaders)
              ELSE Prepared(doc_id, IfMatch(rev[1]))

\* The reference resolution of a single-document operation, up to the
\* construction of its request: get, has and delete of every collection
\* class, update and replace of StandardCollection, update and replace of
\* VertexCollection and EdgeCollection.
prepare(c, op, kind, document, rev, check_rev) ==
  IF op \in {"get", "has", "delete"}
    THEN _prep_from_doc(c, document, rev, check_rev)
  ELSE IF kind = "standard"
    THEN Prepared(_extract_id(c, document.body), NoHeaders)
  ELSE _prep_from_body(c, document, check_rev)

\* ---------------------------------------------------- document references

\* Collection names.
Names == {<<"a">>, <<"a", "b">>}

\* Document keys a body carries.
Keys == {<<"a">>, <<"b">>}

StrDoc(s) == [type |-> "str", str |-> s]
DictDoc(b) == [type |-> "dict", body |-> b]

\* Document bodies: _id, _key and _rev each present or not.
DocBodies ==
  {i @@ k @@ r : i \in Opt("_id", Strings(MaxLen)),
                 k \in Opt("_key", Keys),
                 r \in Opt("_rev", {"r1"})}

\* The references a caller passes: an id or key string, or a body.
Documents == {StrDoc(s) : s \in Strings(MaxLen)} \cup {DictDoc(b) : b \in DocBodies}

\* The explicit revisions a caller passes.
Revs == {None, Some(""), Some("r2")}

Ops == {"get", "has", "delete", "update", "replace"}
Kinds == {"standard", "vertex", "edge"}

\* ------------------------------------------------------------- the server

\* The optional keys of a body the protocol runs draw from: a body names
\* the cursor or does not, and carries the extra block (profile, warnings,
\* stats under their wire names) or does not.
BasicMeta ==
  LET extra == [profile |-> "p", warnings |-> "w",
                stats |-> [writesExecuted |-> 1, scannedFull |-> 2]]
  IN {i @@ e : i \in Opt("id", {"c1"}), e \in Opt("extra", {extra})}

\* The optional keys id, count and cached in every combination, each with
\* two values.
MergeMeta ==
  {i @@ n @@ c : i \in Opt("id", {"c1", "c2"}),
                 n \in Opt("count", {1, 2}),
                 c \in Opt("cached", {FALSE, TRUE})}

\* The diagnostic keys: cached present or not, and the extra block absent,
\* complete, or with a profile only.
DiagMeta ==
  LET full == [profile |-> "p", warnings |-> "w",
               stats |-> [writesExecuted |-> 1, scannedFull |-> 2]]
      part == [profile |-> "q"]
  IN {i @@ c @@ e : i \in Opt("id", {"c1"}),
                    c \in Opt("cached", {FALSE, TRUE}),
                    e \in Opt("extra", {full, part})}

\* The bodies of a successful cursor response when the server has handed
\* out srv rows: the next 0..MaxBatch rows, any hasMore, optional keys M.
Bodies(M, srv) ==
  {m @@ [hasMore |-> h, result |-> RowsFrom(srv, k)] :
     m \in M, h \in BOOLEAN,
     k \in {n \in 0..MaxBatch : srv + n <= MaxRows}}

\* No request was sent.
NoResponse == [is_success |-> FALSE, status_code |-> 0, body |-> <<>>]

\* The responses to PUT /_api/cursor/<id>.
FetchResponses(M, srv) ==
  {[is_success |-> TRUE, status_code |-> 200, body |-> b] : b \in Bodies(M, srv)}
    \cup {[is_success |-> FALSE, status_code |-> s, body |-> <<>>] : s \in {404, 500}}

\* The responses to DELETE /_api/cursor/<id>.
CloseResponses ==
  {[is_success |-> TRUE, status_code |-> 202, body |-> <<>>]}
    \cup {[is_success |-> FALSE, status_code |-> s, body |-> <<>>] : s \in {404, 500}}

\* ----------------------------------------------------------------- actions

\* Cursor.__init__ on the initial response body of a query.
Construct(M) ==
  \E data \in Bodies(M, 0) :
    /\ cursor = _update(Fresh, data)
    /\ srvRows = Len(data.result)
    /\ requests = <<>>
    /\ call = [op |-> "init", ignore_missing |-> FALSE, out |-> Return("None"),
               sent |-> 0, fetches |-> 0]
    /\ resp = [is_success |-> TRUE, status_code |-> 201, body |-> data]
    /\ delivered = <<>>
    /\ closed = FALSE
    /\ stopped = FALSE
    /\ tasks = Idle

\* The effect of a call with result res that received response r: the
\* request it sent is logged, a returned row is handed to the caller.
Finish(op, method, ignore_missing, res, r) ==
  /\ res.sent = 0 => r = NoResponse
  /\ res.sent = 1 => r # NoResponse /\ Len(requests) < MaxRequests
  /\ cursor' = res.cur
  /\ call' = [op |-> op, ignore_missing |-> ignore_missing, out |-> res.out,
              sent |-> res.sent, fetches |-> res.fetches]
  /\ resp' = r
  /\ requests' = IF res.sent = 1
                   THEN Append(requests, [method |-> method, id |-> cursor.id])
                   ELSE requests
  /\ srvRows' = IF r.is_success /\ method = "put"
                  THEN srvRows + Len(r.body.result) ELSE srvRows
  /\ delivered' = IF res.out.ret = "row"
                    THEN Append(delivered, res.out.row) ELSE delivered
  /\ closed' = (closed \/ (op = "close" /\ res.out = Return("True")))
  /\ stopped' = (stopped \/ res.out = Raise("StopAsyncIteration"))

CallPop ==
  /\ Finish("pop", "", FALSE, pop(cursor), NoResponse)
  /\ UNCHANGED tasks
  /\ UNCHANGED dvars

CallFetch(M) ==
  /\ \E r \in FetchResponses(M, srvRows) \cup {NoResponse} :
       Finish("fetch", "put", FALSE, fetch(cursor, r), r)
  /\ UNCHANGED tasks
  /\ UNCHANGED dvars

CallNext(M) ==
  /\ \E r \in FetchResponses(M, srvRows) \cup {NoResponse} :
       Finish("next", "put", FALSE, next(cursor, r), r)
  /\ UNCHANGED tasks
  /\ UNCHANGED dvars

CallClose ==
  /\ \E r \in CloseResponses \cup {NoResponse}, ignore_missing \in BOOLEAN :
       Finish("close", "delete", ignore_missing, close(cursor, r, ignore_missing), r)
  /\ UNCHANGED tasks
  /\ UNCHANGED dvars

\* A caller calls a single-document operation on a collection wrapper;
\* update and replace take a body.
DocInit ==
  \E name \in Names, op \in Ops, kind \in Kinds, document \in Documents,
     rev \in Revs, check_rev \in BOOLEAN :
    /\ op \in {"update", "replace"} => document.type = "dict" /\ rev = None
    /\ coll = Collection(name)
    /\ doc = [stage |-> "called", op |-> op, kind |-> kind, document |-> document,
              rev |-> rev, check_rev |-> check_rev,
              exc |-> "", handle |-> <<>>, headers |-> NoHeaders, sent |-> 0]

\* The operation resolves its reference and, unless that raised, sends its
\* request to the resolved handle.
DocPrepare ==
  /\ doc.stage = "called"
  /\ doc.op \in Ops
  /\ LET p == prepare(coll, doc.op, doc.kind, doc.document, doc.rev, doc.check_rev)
     IN doc' = [doc EXCEPT !.stage = IF p.exc # "" THEN "raised" ELSE "sent",
                           !.exc = p.exc, !.handle = p.handle,
                           !.headers = p.headers,
                           !.sent = IF p.exc # "" THEN 0 ELSE 1]
  /\ UNCHANGED coll
  /\ UNCHANGED cvars

\* No cursor: the cursor is not part of the run.
NoCursor ==
  /\ cursor = Fresh
  /\ srvRows = 0
  /\ requests = <<>>
  /\ call = [op |-> "none", ignore_missing |-> FALSE, out |-> Return("None"),
             sent |-> 0, fetches |-> 0]
  /\ resp = NoResponse
  /\ delivered = <<>>
  /\ closed = FALSE
  /\ stopped = FALSE
  /\ tasks = Idle

\* Single-document operations on a collection wrapper.
InitDoc == DocInit /\ NoCursor

NextDoc == DocPrepare

SpecDoc == InitDoc /\ [][NextDoc]_vars

\* No document call: the collection wrapper is not part of the run.
NoCollection ==
  /\ coll = [name |-> <<>>, id_prefix |-> <<"/">>]
  /\ doc = [stage |-> "none"]

\* One caller using a cursor: any interleaving of its four operations.
Init == Construct(BasicMeta) /\ NoCollection

Next == CallPop \/ CallFetch(BasicMeta) \/ CallNext(BasicMeta) \/ CallClose

Spec == Init /\ [][Next]_vars

\* Construction followed by explicit fetches and pops, over bodies that
\* carry the optional keys in every combination.
InitMerge == Construct(MergeMeta) /\ NoCollection

NextMerge == CallPop \/ CallFetch(MergeMeta)

SpecMerge == InitMerge /\ [][NextMerge]_vars

\* The call op reaches 'await self._conn.send_request(request)': fetch when
\* the id is set, next when no row is queued, has_more is set and the id is
\* set.  Any other call runs to its end without an await.
awaits(c, op) ==
  IF op = "fetch" THEN c.id # None
  ELSE empty(c) /\ c.has_more /\ c.id # None

\* The call op from the await on, with the response r: fetch raises or
\* merges r into the cursor as it is now; next then pops.
resume(c, op, r) ==
  IF op = "fetch" THEN fetch(c, r)
  ELSE LET f == fetch(c, r)
       IN IF f.out.exc # "" THEN f
          ELSE [pop(f.cur) EXCEPT !.sent = f.sent, !.fetches = f.fetches]

\* Bodies that name the cursor or do not.
IdMeta == Opt("id", {"c1"})

\* An idle task calls next() or fetch().  A call that reaches the await
\* sends its request and is suspended; any other call ends at once.
TaskStart ==
  /\ \E t \in Tasks, op \in {"next", "fetch"} :
       /\ tasks[t].pc = "idle"
       /\ IF awaits(cursor, op)
            THEN /\ Len(requests) < MaxRequests
                 /\ requests' = Append(requests, [method |-> "put", id |-> cursor.id])
                 /\ tasks' = [tasks EXCEPT ![t] = [pc |-> "awaiting", op |-> op]]
                 /\ UNCHANGED <<cursor, srvRows, call, resp, delivered, closed,
                                stopped>>
            ELSE /\ Finish(op, "put", FALSE,
                           IF op = "fetch" THEN fetch(cursor, NoResponse)
                           ELSE next(cursor, NoResponse), NoResponse)
                 /\ UNCHANGED tasks
  /\ UNCHANGED dvars

\* The response to a suspended task's request arrives and the task runs
\* its call to the end.
TaskResume ==
  /\ \E t \in Tasks, r \in FetchResponses(IdMeta, srvRows) :
       /\ tasks[t].pc = "awaiting"
       /\ LET res == resume(cursor, tasks[t].op, r)
          IN /\ cursor' = res.cur
             /\ call' = [op |-> tasks[t].op, ignore_missing |-> FALSE,
                         out |-> res.out, sent |-> res.sent,
                         fetches |-> res.fetches]
             /\ resp' = r
             /\ srvRows' = IF r.is_success
                             THEN srvRows + Len(r.body.result) ELSE srvRows
             /\ delivered' = IF res.out.ret = "row"
                               THEN Append(delivered, res.out.row) ELSE delivered
       /\ tasks' = [tasks EXCEPT ![t] = [pc |-> "idle", op |-> ""]]
       /\ UNCHANGED <<requests, closed, stopped>>
  /\ UNCHANGED dvars

\* Tasks sharing one cursor: any interleaving of their next() and fetch()
\* calls, each suspended while its request is in flight.
InitTasks == Construct(IdMeta) /\ NoCollection

NextTasks == TaskStart \/ TaskResume

SpecTasks == InitTasks /\ [][NextTasks]_vars

\* Construction followed by explicit fetches, over bodies that carry the
\* diagnostic keys in every combination.
InitDiag == Construct(DiagMeta) /\ NoCollection

NextDiag == CallFetch(DiagMeta)

SpecDiag == InitDiag /\ [][NextDiag]_vars

\* --------------------------------------------------------- bulk operations

\* Collection._ensure_key_in_body: the body with _key populated.  A body
\* that has _key is returned as it is, whatever _id it carries.
_ensure_key_in_body(c, body) ==
  IF "_key" \in DOMAIN body THEN Ok(body)
  ELSE IF "_id" \in DOMAIN body
    THEN LET doc_id == _validate_id(c, body._id)
         IN IF doc_id.exc # "" THEN ParseError
            ELSE Ok([x \in {"_key"} |->
                       SubSeq(doc_id.val, Len(c.id_prefix) + 1, Len(doc_id.val))]
                    @@ body)
  ELSE ParseError

\* Collection._ensure_key_from_id: the body with _key populated when it has
\* _id and no _key; any other body is returned as it is.
_ensure_key_from_id(c, body) ==
  IF "_id" \in DOMAIN body /\ "_key" \notin DOMAIN body
    THEN LET doc_id == _validate_id(c, body._id)
         IN IF doc_id.exc # "" THEN ParseError
            ELSE Ok([x \in {"_key"} |->
                       SubSeq(doc_id.val, Len(c.id_prefix) + 1, Len(doc_id.val))]
                    @@ body)
    ELSE Ok(body)

\* A list comprehension over per-item results: the list of the values, or
\* the exception of the first item that raised.
Each(items) ==
  IF \E i \in 1..Len(items) : items[i].exc # ""
    THEN ParseError
    ELSE Ok([i \in 1..Len(items) |-> items[i].val])

\* The server error number of a revision conflict.
RevisionConflict == 1200

\* Connection.prep_bulk_err_response: the sub-response of a failure entry
\* carries the entry's error number and message.
prep_bulk_err_response(r, body) ==
  [error_code |-> body.errorNum, error_message |-> body.errorMessage]

\* 'body["_old_rev"] = body.pop("_oldRev")' on a body that has _oldRev.
RenameOldRev(body) ==
  [k \in (DOMAIN body \ {"_oldRev"}) \cup {"_old_rev"} |->
     IF k = "_old_rev" THEN body._oldRev ELSE body[k]]

\* The slots of a result list: a success entry, an exception object built
\* from a sub-response, or (no slot) the KeyError that body.pop raised.
Meta(body) ==
  [kind |-> "meta", body |-> body, error_code |-> 0, error_message |-> ""]
ErrorValue(kind, sub_resp) ==
  [kind |-> kind, body |-> <<>>, error_code |-> sub_resp.error_code,
   error_message |-> sub_resp.error_message]
PopKeyError ==
  [kind |-> "KeyError", body |-> <<>>, error_code |-> 0, error_message |-> ""]

\* What a response handler hands back: a value (True, a dict, a list) or a
\* raised exception.
Handled(ret, list) == [exc |-> "", ret |-> ret, list |-> list]
Raised(e) == [exc |-> e, ret |-> "", list |-> <<>>]

\* The loop over resp.body: the list of its slots, unless an iteration
\* raised.
Results(slots) ==
  IF \E i \in 1..Len(slots) : slots[i].kind = "KeyError"
    THEN Raised("KeyError")
    ELSE Handled("list", slots)

\* Collection.insert_many.response_handler
insert_many_response_handler(r, silent) ==
  IF ~r.is_success THEN Raised("DocumentInsertError")
  ELSE IF silent THEN Handled("True", <<>>)
  ELSE Results([i \in 1..Len(r.body) |->
         LET body == r.body[i]
         IN IF "_id" \in DOMAIN body
              THEN IF "_oldRev" \in DOMAIN body
                     THEN Meta(RenameOldRev(body)) ELSE Meta(body)
              ELSE ErrorValue("DocumentInsertError",
                              prep_bulk_err_response(r, body))])

\* update_many whose handler tests silent before the status of the
\* response.
update_many_response_handler_silent_first(r, silent) ==
  IF silent THEN Handled("True", <<>>)
  ELSE IF ~r.is_success THEN Raised("DocumentUpdateError")
  ELSE Results([i \in 1..Len(r.body) |->
         LET body == r.body[i]
         IN IF "_id" \in DOMAIN body
              THEN IF "_oldRev" \in DOMAIN body
                     THEN Meta(RenameOldRev(body)) ELSE PopKeyError
              ELSE LET sub_resp == prep_bulk_err_response(r, body)
                   IN IF sub_resp.error_code = RevisionConflict
                        THEN ErrorValue("DocumentRevisionError", sub_resp)
                        ELSE ErrorValue("DocumentUpdateError", sub_resp)])

\* Collection.update_many.response_handler.  body.pop("_oldRev") raises
\* KeyError on a success entry without _oldRev.
update_many_response_handler(r, silent) ==
  IF ~r.is_success THEN Raised("DocumentUpdateError")
  ELSE IF silent THEN Handled("True", <<>>)
  ELSE Results([i \in 1..Len(r.body) |->
         LET body == r.body[i]
         IN IF "_id" \in DOMAIN body
              THEN IF "_oldRev" \in DOMAIN body
                     THEN Meta(RenameOldRev(body)) ELSE PopKeyError
              ELSE LET sub_resp == prep_bulk_err_response(r, body)
                   IN IF sub_resp.error_code = RevisionConflict
                        THEN ErrorValue("DocumentRevisionError", sub_resp)
                        ELSE ErrorValue("DocumentUpdateError", sub_resp)])

\* Collection.replace_many.response_handler.  body.pop("_oldRev") raises
\* KeyError on a success entry without _oldRev.
replace_many_response_handler(r, silent) ==
  IF ~r.is_success THEN Raised("DocumentReplaceError")
  ELSE IF silent THEN Handled("True", <<>>)
  ELSE Results([i \in 1..Len(r.body) |->
         LET body == r.body[i]
         IN IF "_id" \in DOMAIN body
              THEN IF "_oldRev" \in DOMAIN body
                     THEN Meta(RenameOldRev(body)) ELSE PopKeyError
              ELSE LET sub_resp == prep_bulk_err_response(r, body)
                   IN IF sub_resp.error_code = RevisionConflict
                        THEN ErrorValue("DocumentRevisionError", sub_resp)
                        ELSE ErrorValue("DocumentReplaceError", sub_resp)])

\* Collection.delete_many.response_handler: a success entry is appended as
\* it came.
delete_many_response_handler(r, silent) ==
  IF ~r.is_success THEN Raised("DocumentDeleteError")
  ELSE IF silent THEN Handled("True", <<>>)
  ELSE Results([i \in 1..Len(r.body) |->
         LET body == r.body[i]
         IN IF "_id" \in DOMAIN body
              THEN Meta(body)
              ELSE LET sub_resp == prep_bulk_err_response(r, body)
                   IN IF sub_resp.error_code = RevisionConflict
                        THEN ErrorValue("DocumentRevisionError", sub_resp)
                        ELSE ErrorValue("DocumentDeleteError", sub_resp)])

\* The subsequence of the entries that have _id, in order.
WithId(entries) == SelectSeq(entries, LAMBDA e : "_id" \in DOMAIN e)

\* Collection.get_many.response_handler: the documents found; the entries
\* of missing ones are left out.
get_many_response_handler(r) ==
  IF ~r.is_success THEN Raised("DocumentGetError")
  ELSE Handled("list", [i \in 1..Len(WithId(r.body)) |-> Meta(WithId(r.body)[i])])

\* StandardCollection.insert.response_handler: the body of the response is
\* the one entry.
insert_response_handler(r, silent) ==
  IF ~r.is_success THEN Raised("DocumentInsertError")
  ELSE IF silent THEN Handled("True", <<>>)
  ELSE IF "_oldRev" \in DOMAIN r.body
    THEN Handled("dict", <<Meta(RenameOldRev(r.body))>>)
    ELSE Handled("dict", <<Meta(r.body)>>)

\* The outcome of an operation: it raised before its request (nothing
\* sent), or sent data and handed back what its handler did with the
\* response.
NotSent(e) == [exc |-> e, ret |-> "", list |-> <<>>, sent |-> 0, data |-> <<>>]
Sent(data, h) ==
  [exc |-> h.exc, ret |-> h.ret, list |-> h.list, sent |-> 1, data |-> data]

\* StandardCollection.insert of one body (documents holds the one body).
insert(c, documents, silent, r) ==
  LET document == _ensure_key_from_id(c, documents[1].body)
  IN IF document.exc # "" THEN NotSent(document.exc)
     ELSE Sent(<<document.val>>, insert_response_handler(r, silent))

\* Collection.insert_many
insert_many(c, documents, silent, r) ==
  LET docs == Each([i \in 1..Len(documents) |->
                      _ensure_key_from_id(c, documents[i].body)])
  IN IF docs.exc # "" THEN NotSent(docs.exc)
     ELSE Sent(docs.val, insert_many_response_handler(r, silent))

\* Collection.update_many
update_many(c, documents, silent, r) ==
  LET docs == Each([i \in 1..Len(documents) |->
                      _ensure_key_in_body(c, documents[i].body)])
  IN IF docs.exc # "" THEN NotSent(docs.exc)
     ELSE Sent(docs.val, update_many_response_handler(r, silent))

\* Collection.replace_many
replace_many(c, documents, silent, r) ==
  LET docs == Each([i \in 1..Len(documents) |->
                      _ensure_key_in_body(c, documents[i].body)])
  IN IF docs.exc # "" THEN NotSent(docs.exc)
     ELSE Sent(docs.val, replace_many_response_handler(r, silent))

\* Collection.delete_many: a body gets its _key, a string is sent as it is.
delete_many(c, documents, silent, r) ==
  LET docs == Each([i \in 1..Len(documents) |->
                      IF documents[i].type = "dict"
                        THEN _ensure_key_in_body(c, documents[i].body)
                        ELSE Ok(documents[i].str)])
  IN IF docs.exc # "" THEN NotSent(docs.exc)
     ELSE Sent(docs.val, delete_many_response_handler(r, silent))

\* Collection.get_many: a body gives its id, a string is sent as it is.
get_many(c, documents, r) ==
  LET handles == Each([i \in 1..Len(documents) |->
                         IF documents[i].type = "dict"
                           THEN _extract_id(c, documents[i].body)
                           ELSE Ok(documents[i].str)])
  IN IF handles.exc # "" THEN NotSent(handles.exc)
     ELSE Sent(handles.val, get_many_response_handler(r))

\* The operations that take a list of documents, and insert.
ManyOps ==
  {"insert", "insert_many", "update_many", "replace_many", "delete_many",
   "get_many"}

\* The operation op of the collection c.
run(c, op, documents, silent, r) ==
  CASE op = "insert" -> insert(c, documents, silent, r)
    [] op = "insert_many" -> insert_many(c, documents, silent, r)
    [] op = "update_many" -> update_many(c, documents, silent, r)
    [] op = "replace_many" -> replace_many(c, documents, silent, r)
    [] op = "delete_many" -> delete_many(c, documents, silent, r)
    [] op = "get_many" -> get_many(c, documents, r)

\* ---------------------------------------------- bulk inputs and responses

\* Document ids of the collections 'a', 'ab' and 'b'.
Ids == {n \o <<"/">> \o k : n \in Names \cup {<<"b">>}, k \in Keys}

\* Bodies with _id and _key each present or not.
RefBodies == {i @@ k : i \in Opt("_id", Ids), k \in Opt("_key", Keys)}

\* The references of a bulk call: an id, a key or a body.
RefDocuments ==
  {StrDoc(s) : s \in Ids \cup Keys} \cup {DictDoc(b) : b \in RefBodies}

\* Bodies that name their document by _key.
KeyDocuments == {DictDoc([_key |-> k]) : k \in Keys}

\* The entry of a document the server wrote, read or removed: its identity
\* and revision, with or without the revision it had before.
SuccessEntries ==
  {[_id |-> "a/a", _key |-> "a", _rev |-> "r2"] @@ o : o \in Opt("_oldRev", {"r1"})}

\* The entry of a document the server failed on: conflict (1200), document
\* not found (1202), unique constraint violated (1210).
FailureEntries ==
  {[error |-> TRUE, errorNum |-> RevisionConflict, errorMessage |-> "conflict"],
   [error |-> TRUE, errorNum |-> 1202, errorMessage |-> "document not found"],
   [error |-> TRUE, errorNum |-> 1210,
    errorMessage |-> "unique constraint violated"]}

\* The responses to the request of op for n documents: a success with one
\* entry per document, in order (for insert, the one entry itself), or a
\* request-level failure.
ManyResponses(E, op, n) ==
  (IF op = "insert"
     THEN {[is_success |-> TRUE, status_code |-> 201, body |-> e] :
             e \in E \cap SuccessEntries}
     ELSE {[is_success |-> TRUE, status_code |-> 202, body |-> b] :
             b \in [1..n -> E]})
    \cup {[is_success |-> FALSE, status_code |-> s, body |-> <<>>] : s \in {400, 500}}

\* A caller calls insert or a bulk operation with documents drawn from D:
\* insert takes one body, insert_many, update_many and replace_many take
\* bodies, get_many has no silent parameter.
ManyInit(D) ==
  \E name \in Names, op \in ManyOps, silent \in BOOLEAN, n \in 0..MaxDocs :
    \E documents \in [1..n -> D] :
      /\ op = "insert" => n = 1
      /\ op \in {"insert", "insert_many", "update_many", "replace_many"} =>
           \A i \in 1..n : documents[i].type = "dict"
      /\ op = "get_many" => ~silent
      /\ coll = Collection(name)
      /\ doc = [stage |-> "called", op |-> op, documents |-> documents,
                silent |-> silent, resp |-> NoResponse, exc |-> "", ret |-> "",
                list |-> <<>>, sent |-> 0, data |-> <<>>]

\* The operation runs: it prepares its documents and, unless that raised,
\* sends its request and handles the response.
ManyRun(E) ==
  /\ doc.stage = "called"
  /\ doc.op \in ManyOps
  /\ \E r \in ManyResponses(E, doc.op, Len(doc.documents)) \cup {NoResponse} :
       LET res == run(coll, doc.op, doc.documents, doc.silent, r)
       IN /\ res.sent = 0 <=> r = NoResponse
          /\ doc' = [doc EXCEPT !.stage = "done", !.resp = r, !.exc = res.exc,
                                !.ret = res.ret, !.list = res.list,
                                !.sent = res.sent, !.data = res.data]
  /\ UNCHANGED coll
  /\ UNCHANGED cvars

\* Bulk operations on bodies with a _key, over every mix of success and
\* failure entries.
InitBulk == ManyInit(KeyDocuments) /\ NoCursor

NextBulk == ManyRun(SuccessEntries \cup FailureEntries)

SpecBulk == InitBulk /\ [][NextBulk]_vars

\* Every document operation that takes a reference, over ids, keys and
\* bodies of the owning and of other collections.
InitRefs == (DocInit \/ ManyInit(RefDocuments)) /\ NoCursor

NextRefs == DocPrepare \/ ManyRun(SuccessEntries)

SpecRefs == InitRefs /\ [][NextRefs]_vars

\* ------------------------------------------------- draining a result set

\* The bodies of a server that holds a result set of at most MaxRows rows
\* and follows the cursor protocol: hasMore is set only while rows remain,
\* the initial body that sets hasMore names the cursor, and every
\* continuation body carries at least one row.
DrainBodies(srv, first) ==
  {b \in Bodies(BasicMeta, srv) :
     /\ b.hasMore => srv + Len(b.result) < MaxRows
     /\ IF first THEN b.hasMore => "id" \in DOMAIN b
                 ELSE Len(b.result) >= 1}

\* The responses of that server to PUT /_api/cursor/<id>.
DrainResponses(srv) ==
  {[is_success |-> TRUE, status_code |-> 200, body |-> b] :
     b \in DrainBodies(srv, FALSE)}

\* Cursor.__init__ on the initial response of that server.
ConstructDrain ==
  \E data \in DrainBodies(0, TRUE) :
    /\ cursor = _update(Fresh, data)
    /\ srvRows = Len(data.result)
    /\ requests = <<>>
    /\ call = [op |-> "init", ignore_missing |-> FALSE, out |-> Return("None"),
               sent |-> 0, fetches |-> 0]
    /\ resp = [is_success |-> TRUE, status_code |-> 201, body |-> data]
    /\ delivered = <<>>
    /\ closed = FALSE
    /\ stopped = FALSE
    /\ tasks = Idle

\* The caller calls next() once more.
DrainNext ==
  /\ \E r \in DrainResponses(srvRows) \cup {NoResponse} :
       Finish("next", "put", FALSE, next(cursor, r), r)
  /\ UNCHANGED tasks
  /\ UNCHANGED dvars

InitDrain == ConstructDrain /\ NoCollection

NextDrain == DrainNext

\* The caller keeps calling next(): a call that can be made is made.
SpecDrain == InitDrain /\ [][NextDrain]_vars /\ WF_vars(NextDrain)

\* ------------------------------------------ single-document responses

\* The server error number of a document that does not exist.
DocumentNotFound == 1202

\* StandardCollection.get.response_handler, and the same handler of
\* VertexCollection and EdgeCollection (which return the body's "vertex"
\* or "edge").
get_response_handler(kind, r) ==
  IF r.error_code = DocumentNotFound THEN Return("None")
  ELSE IF r.status_code = 412 THEN Raise("DocumentRevisionError")
  ELSE IF ~r.is_success THEN Raise("DocumentGetError")
  ELSE Return("dict")

\* Collection.has.response_handler
has_response_handler(r) ==
  IF r.error_code = DocumentNotFound THEN Return("False")
  ELSE IF r.status_code = 412 THEN Raise("DocumentRevisionError")
  ELSE IF ~r.is_success THEN Raise("DocumentInError")
  ELSE Return("bool")

\* StandardCollection.update.response_handler (result.pop("_oldRev") raises
\* KeyError on a body without _oldRev), and the handlers of
\* VertexCollection.update and EdgeCollection.update.
update_response_handler(kind, r, silent) ==
  IF r.status_code = 412 THEN Raise("DocumentRevisionError")
  ELSE IF ~r.is_success THEN Raise("DocumentUpdateError")
  ELSE IF silent THEN Return("True")
  ELSE IF kind = "standard" /\ "_oldRev" \notin DOMAIN r.body
    THEN Raise("KeyError")
  ELSE Return("dict")

\* StandardCollection.replace.response_handler, and the handlers of
\* VertexCollection.replace and EdgeCollection.replace.
replace_response_handler(kind, r, silent) ==
  IF r.status_code = 412 THEN Raise("DocumentRevisionError")
  ELSE IF ~r.is_success THEN Raise("DocumentReplaceError")
  ELSE IF silent THEN Return("True")
  ELSE Return("dict")

\* delete whose handler returns False for a missing document whether or
\* not ignore_missing was passed, as the handler of has does.
delete_response_handler_always_false(kind, r, ignore_missing, silent, return_old) ==
  IF r.error_code = DocumentNotFound THEN Return("False")
  ELSE IF r.status_code = 412 THEN Raise("DocumentRevisionError")
  ELSE IF ~r.is_success THEN Raise("DocumentDeleteError")
  ELSE IF kind = "standard"
    THEN IF silent THEN Return("True") ELSE Return("dict")
  ELSE IF return_old THEN Return("dict") ELSE Return("True")

\* StandardCollection.delete.response_handler (True if silent else the
\* body), and the handlers of VertexCollection.delete and
\* EdgeCollection.delete ({"old": ...} if return_old else True).
delete_response_handler(kind, r, ignore_missing, silent, return_old) ==
  IF r.error_code = DocumentNotFound /\ ignore_missing THEN Return("False")
  ELSE IF r.status_code = 412 THEN Raise("DocumentRevisionError")
  ELSE IF ~r.is_success THEN Raise("DocumentDeleteError")
  ELSE IF kind = "standard"
    THEN IF silent THEN Return("True") ELSE Return("dict")
  ELSE IF return_old THEN Return("dict") ELSE Return("True")

\* The response handler of the operation op of a collection of the kind.
response_handler(op, kind, r, ignore_missing, silent, return_old) ==
  CASE op = "get" -> get_response_handler(kind, r)
    [] op = "has" -> has_response_handler(r)
    [] op = "update" -> update_response_handler(kind, r, silent)
    [] op = "replace" -> replace_response_handler(kind, r, silent)
    [] op = "delete" ->
         delete_response_handler(kind, r, ignore_missing, silent, return_old)

\* The responses to the request of a single-document operation: a success
\* with the document's entry, or a failure: precondition failed (412 with
\* 1200), write conflict (409 with 1200), document not found (404 with
\* 1202), unique constraint violated (409 with 1210), server error (500
\* with 4).
DocResponses ==
  {[is_success |-> TRUE, status_code |-> 200, error_code |-> 0, body |-> e] :
     e \in SuccessEntries}
    \cup {[is_success |-> FALSE, status_code |-> s[1], error_code |-> s[2],
           body |-> <<>>] :
            s \in {<<412, RevisionConflict>>, <<409, RevisionConflict>>,
                   <<404, DocumentNotFound>>, <<409, 1210>>, <<500, 4>>}}

\* References by key: a key string or a body with a _key.
KeyReferences == {StrDoc(k) : k \in Keys} \cup KeyDocuments

\* A caller calls a single-document operation with a reference drawn from
\* D, a revision drawn from R and flags drawn from B: check_rev, and the
\* options the operation has, ignore_missing (delete), silent (update,
\* replace, StandardCollection.delete), return_old (VertexCollection.delete,
\* EdgeCollection.delete).
DocCalls(D, R, B) ==
  {[stage |-> "called", op |-> op, kind |-> kind, document |-> document,
    rev |-> rev, check_rev |-> check_rev,
    exc |-> "", handle |-> <<>>, headers |-> NoHeaders, sent |-> 0,
    ignore_missing |-> ignore_missing, silent |-> silent,
    return_old |-> return_old, resp |-> NoResponse, out |-> Return("None")] :
     op \in Ops, kind \in Kinds, document \in D, rev \in R,
     check_rev \in B, ignore_missing \in B, silent \in B, return_old \in B}

\* The calls the signatures of the operations allow.
WellFormed(d) ==
  /\ d.op \in {"update", "replace"} => d.document.type = "dict" /\ d.rev = None
  /\ d.ignore_missing => d.op = "delete"
  /\ d.silent => \/ d.op \in {"update", "replace"}
                 \/ d.op = "delete" /\ d.kind = "standard"
  /\ d.return_old => d.op = "delete" /\ d.kind # "standard"

\* The response to the request of the call arrives and its handler runs.
DocRespond ==
  /\ doc.stage = "sent"
  /\ doc.op \in Ops
  /\ \E r \in DocResponses :
       doc' = [doc EXCEPT !.stage = "done", !.resp = r,
                          !.out = response_handler(doc.op, doc.kind, r,
                                     doc.ignore_missing, doc.silent,
                                     doc.return_old)]
  /\ UNCHANGED coll
  /\ UNCHANGED cvars

\* Single-document operations, from the call to the handling of the
\* response.
InitResp ==
  /\ \E name \in Names, d \in DocCalls(KeyReferences, Revs, BOOLEAN) :
       /\ WellFormed(d)
       /\ coll = Collection(name)
       /\ doc = d
  /\ NoCursor

NextResp == DocPrepare \/ DocRespond

SpecResp == InitResp /\ [][NextResp]_vars

\* ------------------------------------------------ renaming a collection

\* rename whose handler stores the new name and leaves the id prefix as
\* it was.
rename_name_only(c, new_name, r) ==
  IF ~r.is_success
    THEN [coll |-> c, out |-> Raise("CollectionRenameError")]
    ELSE [coll |-> [c EXCEPT !.name = new_name], out |-> Return("True")]

\* Collection.rename: the response handler raises on a failure and stores
\* the new name and its prefix on a success.
rename(c, new_name, r) ==
  IF ~r.is_success
    THEN [coll |-> c, out |-> Raise("CollectionRenameError")]
    ELSE [coll |-> [name |-> new_name, id_prefix |-> new_name \o <<"/">>],
          out |-> Return("True")]

\* The names a caller renames a collection to.
NewNames == Names \cup {<<"b">>}

\* The responses to PUT /_api/collection/<name>/rename.
RenameResponses ==
  {[is_success |-> TRUE, status_code |-> 200],
   [is_success |-> FALSE, status_code |-> 404],
   [is_success |-> FALSE, status_code |-> 409]}

\* No call was made on the wrapper yet.
NoCall == [stage |-> "idle", op |-> "none"]

\* A caller calls rename(new_name): the request goes to the endpoint of
\* the current name and the handler runs on its response.
Rename ==
  /\ doc.stage # "called"
  /\ \E new_name \in NewNames, r \in RenameResponses :
       LET res == rename(coll, new_name, r)
       IN /\ coll' = res.coll
          /\ doc' = [stage |-> "renamed", op |-> "rename",
                     endpoint |-> coll.name, new_name |-> new_name,
                     resp |-> r, out |-> res.out]
  /\ UNCHANGED cvars

\* A caller calls a single-document operation on the wrapper, with no
\* revision and no option.
DocCall ==
  /\ doc.stage # "called"
  /\ \E d \in DocCalls(RefDocuments, {None}, {FALSE}) :
       /\ WellFormed(d)
       /\ doc' = d
  /\ UNCHANGED coll
  /\ UNCHANGED cvars

\* A wrapper whose collection is renamed between its document operations.
InitRename ==
  /\ \E name \in Names : coll = Collection(name)
  /\ doc = NoCall
  /\ NoCursor

NextRename == Rename \/ DocCall \/ DocPrepare

SpecRename == InitRename /\ [][NextRename]_vars

\* ------------------------------------------------------------ bulk import

\* get_batches that yields the full batches only: the documents after the
\* last full batch are left out.
get_batches_full_only(elements, batch_size) ==
  [k \in 1..(Len(elements) \div batch_size) |->
     SubSeq(elements, (k - 1) * batch_size + 1, k * batch_size)]

\* utils.get_batches: the slices elements[index : index + batch_size] for
\* index in range(0, len(elements), batch_size); a slice ends at the end of
\* the list at the latest.
get_batches(elements, batch_size) ==
  [k \in 1..((Len(elements) + batch_size - 1) \div batch_size) |->
     SubSeq(elements, (k - 1) * batch_size + 1,
            IF k * batch_size <= Len(elements)
              THEN k * batch_size ELSE Len(elements))]

\* The documents of an import call: bodies with a _key, with an id of the
\* collection 'a' only, or with an id of the collection 'b' only.
ImportBodies ==
  {[_key |-> k] : k \in Keys}
    \cup {[_id |-> n \o <<"/", "a">>] : n \in {<<"a">>, <<"b">>}}

ImportLists == UNION {[1..n -> ImportBodies] : n \in 0..MaxImport}

\* The responses to POST /_api/import.
ImportResponses ==
  {[is_success |-> TRUE, status_code |-> 201],
   [is_success |-> FALSE, status_code |-> 400],
   [is_success |-> FALSE, status_code |-> 409]}

\* A caller calls import_bulk(documents, overwrite=..., batch_size=...).
\* requests lists the data of the requests sent so far, results counts the
\* results collected, stored lists the documents the server has imported.
ImportInit ==
  \E name \in Names, documents \in ImportLists,
     overwrite \in {None, Some(FALSE), Some(TRUE)},
     batch_size \in {None} \cup {Some(b) : b \in 1..MaxImport} :
    /\ coll = Collection(name)
    /\ doc = [stage |-> "called", op |-> "import_bulk",
              documents |-> documents, overwrite |-> overwrite,
              batch_size |-> batch_size, batches |-> <<>>,
              requests |-> <<>>, results |-> 0, stored |-> <<>>,
              resp |-> NoResponse, out |-> Return("None")]

\* import_bulk up to its first request: the test of overwrite against
\* batch_size, the keys of the documents, and the batches (the whole list
\* as the data of one request when no batch_size is given).
ImportStart ==
  /\ doc.stage = "called"
  /\ doc.op = "import_bulk"
  /\ LET docs == Each([i \in 1..Len(doc.documents) |->
                         _ensure_key_from_id(coll, doc.documents[i])])
         batches == IF doc.batch_size = None THEN <<docs.val>>
                    ELSE get_batches(docs.val, doc.batch_size[1])
     IN doc' =
          IF doc.overwrite = Some(TRUE) /\ doc.batch_size # None
            THEN [doc EXCEPT !.stage = "done", !.out = Raise("ValueError")]
          ELSE IF docs.exc # ""
            THEN [doc EXCEPT !.stage = "done", !.out = Raise(docs.exc)]
          ELSE IF batches = <<>>
            THEN [doc EXCEPT !.stage = "done", !.out = Return("list")]
          ELSE [doc EXCEPT !.stage = "sending", !.batches = batches]
  /\ UNCHANGED coll
  /\ UNCHANGED cvars

\* import_bulk sends the request of its next batch and awaits the
\* response: a success is collected as a result, a failure raises
\* DocumentInsertError out of the loop.
ImportBatch ==
  /\ doc.stage = "sending"
  /\ \E r \in ImportResponses :
       LET k == Len(doc.requests) + 1
           data == doc.batches[k]
       IN doc' =
            IF ~r.is_success
              THEN [doc EXCEPT !.stage = "done", !.resp = r,
                               !.requests = Append(@, data),
                               !.out = Raise("DocumentInsertError")]
            ELSE [doc EXCEPT !.stage = IF k = Len(doc.batches)
                                         THEN "done" ELSE "sending",
                             !.resp = r,
                             !.requests = Append(@, data),
                             !.results = @ + 1,
                             !.stored = @ \o data,
                             !.out = IF k < Len(doc.batches) THEN @
                                     ELSE IF doc.batch_size = None
                                       THEN Return("dict")
                                     ELSE Return("list")]
  /\ UNCHANGED coll
  /\ UNCHANGED cvars

InitImport == ImportInit /\ NoCursor

NextImport == ImportStart \/ ImportBatch

SpecImport == InitImport /\ [][NextImport]_vars

\* ------------------------------------------------------------------ claims

\* The rows the server has handed out: the initial rows, then the rows of
\* each successful fetch response, in the order the responses arrived.
Received == RowsFrom(0, srvRows)

IsPrefix(s, t) == Len(s) <= Len(t) /\ SubSeq(t, 1, Len(s)) = s

\* The requests the step sends.
SentNow == Len(requests') - Len(requests)

\* C1: a call of next() does exactly one of three things.  With rows
\* queued it removes and returns the front row and sends nothing.  With no
\* row queued and has_more set it calls fetch() exactly once (one PUT when
\* the cursor has an id, none when it has not) and, when that fetch
\* succeeded, pops from the merged queue; a fetch that raised ends the call
\* with that exception.  With no row queued and has_more unset it raises
\* StopAsyncIteration, sends nothing and changes nothing.
C1_NextDoesOneOfThree ==
  [][call'.op = "next" =>
       /\ ~empty(cursor) =>
            /\ call'.out = ReturnRow(Head(cursor.batch))
            /\ cursor' = [cursor EXCEPT !.batch = Tail(cursor.batch)]
            /\ call'.fetches = 0 /\ SentNow = 0
       /\ empty(cursor) /\ cursor.has_more =>
            /\ call'.fetches = 1
            /\ SentNow = (IF cursor.id = None THEN 0 ELSE 1)
            /\ SentNow = 1 => requests'[Len(requests')].method = "put"
            /\ resp'.is_success =>
                 /\ call'.out = IF resp'.body.result = <<>>
                                  THEN Raise("CursorEmptyError")
                                  ELSE ReturnRow(Head(resp'.body.result))
                 /\ cursor'.batch = IF resp'.body.result = <<>>
                                      THEN <<>> ELSE Tail(resp'.body.result)
            /\ ~resp'.is_success =>
                 /\ call'.out \in {Raise("CursorStateError"), Raise("CursorNextError")}
                 /\ cursor' = cursor
       /\ empty(cursor) /\ ~cursor.has_more =>
            /\ call'.out = Raise("StopAsyncIteration")
            /\ cursor' = cursor
            /\ call'.fetches = 0 /\ SentNow = 0]_vars

\* A next() found the queue empty, fetched once and returned the first row
\* of the fetched batch.
C1_Witness ==
  /\ call.op = "next" /\ call.fetches = 1 /\ call.sent = 1
  /\ call.out.ret = "row"
  /\ resp.is_success /\ call.out.row = Head(resp.body.result)

\* C2: for a cursor with an id, under any interleaving of next(), pop() and
\* fetch(), the rows handed to the caller are a prefix of the rows received
\* (initial rows, then each successful fetch's rows in arrival order), and
\* the rows not yet handed over are exactly the queue: nothing is dropped,
\* duplicated or reordered.
C2_DeliveredIsPrefixOfReceived ==
  cursor.id # None =>
    /\ IsPrefix(delivered, Received)
    /\ delivered \o cursor.batch = Received

\* After some rows were handed over, an explicit fetch() has appended a
\* non-empty batch behind rows that were still queued.
C2_Witness ==
  /\ cursor.id # None
  /\ delivered # <<>>
  /\ call.op = "fetch" /\ resp.is_success /\ resp.body.result # <<>>
  /\ Len(cursor.batch) > Len(resp.body.result)

C4_EmptyFetchIsNotAnError ==
  (/\ call.op = "next" /\ call.fetches = 1
   /\ resp.is_success /\ resp.body.result = <<>> /\ resp.body.hasMore)
    => call.out.exc = ""

\* C5: pop() with no row queued raises CursorEmptyError, sends no request
\* and leaves every slot as it was, whatever has_more is; pop() with rows
\* queued removes exactly the front row and returns it.
C5_Pop ==
  [][call'.op = "pop" =>
       /\ SentNow = 0 /\ call'.sent = 0 /\ call'.fetches = 0
       /\ IF cursor.batch = <<>>
            THEN call'.out = Raise("CursorEmptyError") /\ cursor' = cursor
            ELSE /\ call'.out = ReturnRow(Head(cursor.batch))
                 /\ cursor' = [cursor EXCEPT !.batch = Tail(cursor.batch)]]_vars

\* pop() has raised CursorEmptyError on a cursor whose has_more, id, profile
\* and statistics are set, without a request.
C5_Witness ==
  /\ call.op = "pop" /\ call.out = Raise("CursorEmptyError")
  /\ cursor.has_more /\ cursor.id # None /\ cursor.batch = <<>>
  /\ cursor.profile # None /\ cursor.stats = <<[modified |-> 1, scanned_full |-> 2]>>
  /\ resp = NoResponse

\* C6: close() on a cursor whose id is set sends one DELETE and returns
\* True on a success response, returns False on a 404 when ignore_missing
\* was passed, and raises CursorCloseError otherwise (a 404 without
\* ignore_missing, any other failure with or without it).
C6_Close ==
  (call.op = "close" /\ cursor.id # None) =>
    /\ call.sent = 1
    /\ requests # <<>>
    /\ requests[Len(requests)] = [method |-> "delete", id |-> cursor.id]
    /\ call.out = IF resp.is_success THEN Return("True")
                  ELSE IF resp.status_code = 404 /\ call.ignore_missing
                    THEN Return("False")
                  ELSE Raise("CursorCloseError")

\* close(ignore_missing=True) has raised CursorCloseError on a failure that
\* is not a 404.
C6_Witness ==
  /\ call.op = "close" /\ cursor.id # None /\ call.ignore_missing
  /\ ~resp.is_success /\ resp.status_code = 500
  /\ call.out = Raise("CursorCloseError")

\* C7: once close() has deleted the server-side cursor, a later next() or
\* fetch() hands no row to the caller and sends no request.
C7_ClosedCursorIsUnusable ==
  (closed /\ call.op \in {"next", "fetch"}) =>
    call.out.ret # "row" /\ call.sent = 0

\* The batch-merge rule: id, count and cached are overwritten when the body
\* has them and kept when it has not, has_more is overwritten, the rows are
\* appended.
MergeRule(old, new, data) ==
  /\ new.id = IF "id" \in DOMAIN data THEN <<data.id>> ELSE old.id
  /\ new.count = IF "count" \in DOMAIN data THEN <<data.count>> ELSE old.count
  /\ new.cached = IF "cached" \in DOMAIN data THEN <<data.cached>> ELSE old.cached
  /\ new.has_more = data.hasMore
  /\ Len(new.batch) = Len(old.batch) + Len(data.result)
  /\ \A i \in 1..Len(old.batch) : new.batch[i] = old.batch[i]
  /\ \A i \in 1..Len(data.result) : new.batch[Len(old.batch) + i] = data.result[i]

\* C8: the batch-merge rule holds of the construction (from empty slots)
\* and of every successful fetch.
C8_BatchMerge ==
  /\ MergeRule([id |-> <<>>, count |-> <<>>, cached |-> <<>>, batch |-> <<>>],
               cursor, resp.body)
  /\ [][(call'.op = "fetch" /\ resp'.is_success) =>
          MergeRule(cursor, cursor', resp'.body)]_vars

\* A successful fetch whose body had an id and no count has left the stored
\* count in place, replaced the id and appended its rows behind queued ones.
C8_Witness ==
  /\ call.op = "fetch" /\ resp.is_success
  /\ "id" \in DOMAIN resp.body /\ "count" \notin DOMAIN resp.body
  /\ cursor.count # None /\ cursor.id = <<"c2">>
  /\ resp.body.result # <<>>
  /\ Len(cursor.batch) > Len(resp.body.result)

\* id is name, then "/", then anything: id starts with '<collection>/'.
OwnedBy(id, name) ==
  /\ Len(id) > Len(name)
  /\ \A i \in 1..Len(name) : id[i] = name[i]
  /\ id[Len(name) + 1] = "/"

\* The call has resolved its reference (it raised or sent its request).
Resolved == doc.stage \in {"raised", "sent"}

\* C9: a body whose _id starts with '<collection>/' resolves to that _id
\* exactly, also when it carries a _key that disagrees; a body without _id
\* but with _key resolves to '<collection>/<key>'.
C9_BodyHandle ==
  (Resolved /\ doc.document.type = "dict") =>
    LET body == doc.document.body
    IN /\ ("_id" \in DOMAIN body /\ OwnedBy(body._id, coll.name)) =>
            doc.stage = "sent" /\ doc.handle = body._id
       /\ ("_id" \notin DOMAIN body /\ "_key" \in DOMAIN body) =>
            doc.stage = "sent" /\ doc.handle = coll.name \o <<"/">> \o body._key

\* A body with _id 'a/a' and _key 'b' was resolved to 'a/a'.
C9_Witness ==
  /\ doc.stage = "sent" /\ doc.document.type = "dict"
  /\ coll.name = <<"a">>
  /\ "_id" \in DOMAIN doc.document.body /\ "_key" \in DOMAIN doc.document.body
  /\ doc.document.body._id = <<"a", "/", "a">>
  /\ doc.document.body._key = <<"b">>
  /\ doc.handle = <<"a", "/", "a">>

\* The reference names another collection, or names no document at all: a
\* string with a "/" or a body's _id that does not start with
\* '<collection>/', or a body with neither _id nor _key.
BadReference(document, name) ==
  IF document.type = "str"
    THEN (\E i \in 1..Len(document.str) : document.str[i] = "/")
         /\ ~OwnedBy(document.str, name)
    ELSE IF "_id" \in DOMAIN document.body
      THEN ~OwnedBy(document.body._id, name)
      ELSE "_key" \notin DOMAIN document.body

\* C10: in get, has, delete, update and replace, a reference that names
\* another collection or no document raises DocumentParseError and no
\* request is sent; also when the owning collection's name is a proper
\* prefix of the id's collection name.
C10_ForeignReferenceRaises ==
  (Resolved /\ BadReference(doc.document, coll.name)) =>
    /\ doc.stage = "raised"
    /\ doc.exc = "DocumentParseError"
    /\ doc.sent = 0

\* The collection 'a' was given the id 'ab/a' and raised DocumentParseError
\* without a request.
C10_Witness ==
  /\ doc.stage = "raised" /\ doc.exc = "DocumentParseError" /\ doc.sent = 0
  /\ coll.name = <<"a">>
  /\ doc.document.type = "str"
  /\ doc.document.str = <<"a", "b", "/", "a">>

\* The call takes an explicit revision: get, has and delete.
TakesRev == doc.op \in {"get", "has", "delete"}

\* C11: with check_rev set and an explicit revision given, the If-Match
\* header of the request carries the explicit revision, whatever the
\* revision string is and whatever _rev the body carries.
C11_ExplicitRevisionWins ==
  (doc.stage = "sent" /\ TakesRev /\ doc.check_rev /\ doc.rev # None) =>
    doc.headers = IfMatch(doc.rev[1])

\* The call builds its headers with _prep_from_doc or _prep_from_body.
UsesResolver == TakesRev \/ doc.kind # "standard"

\* The effective revision of the call: the explicit revision when one was
\* given, else the body's _rev when the reference is a body that has one,
\* else none.
EffectiveRev ==
  IF TakesRev /\ doc.rev # None THEN doc.rev
  ELSE IF doc.document.type = "dict" /\ "_rev" \in DOMAIN doc.document.body
    THEN Some(doc.document.body._rev)
  ELSE None

\* C12: the headers are {If-Match: effective revision} when check_rev is
\* set and an effective revision exists, and empty otherwise.
C12_HeaderIffRevision ==
  (doc.stage = "sent" /\ UsesResolver) =>
    doc.headers = IF doc.check_rev /\ EffectiveRev # None
                    THEN IfMatch(EffectiveRev[1]) ELSE NoHeaders

\* C13: a string without "/" resolves to '<collection>/' and the string; a
\* string with "/" resolves to itself when it starts with '<collection>/'
\* and raises DocumentParseError, without a request, when it does not.
C13_StringReference ==
  (Resolved /\ doc.document.type = "str") =>
    LET s == doc.document.str
    IN IF \A i \in 1..Len(s) : s[i] # "/"
         THEN doc.stage = "sent" /\ doc.handle = coll.name \o <<"/">> \o s
         ELSE IF OwnedBy(s, coll.name)
           THEN doc.stage = "sent" /\ doc.handle = s
           ELSE /\ doc.stage = "raised" /\ doc.exc = "DocumentParseError"
                /\ doc.sent = 0 /\ doc.handle = <<>>

\* The collection 'ab' was given the key 'ab' and resolved it to 'ab/ab'.
C13_Witness ==
  /\ doc.stage = "sent" /\ doc.document.type = "str"
  /\ coll.name = <<"a", "b">>
  /\ doc.document.str = <<"a", "b">>
  /\ doc.handle = <<"a", "b", "/", "a", "b">>

\* The four bulk write operations.
BulkOps == {"insert_many", "update_many", "replace_many", "delete_many"}

\* The error of an operation.
OpError(op) ==
  CASE op = "insert_many" -> "DocumentInsertError"
    [] op = "update_many" -> "DocumentUpdateError"
    [] op = "replace_many" -> "DocumentReplaceError"
    [] op = "delete_many" -> "DocumentDeleteError"

\* A bulk write has ended (it returned or raised).
BulkDone == doc.stage = "done" /\ doc.op \in BulkOps

\* C14: a bulk write without silent whose response is a success with one
\* entry per document does not raise and returns a list as long as its
\* input; slot i is a success value with entry i's identity and revision
\* when entry i has _id, and otherwise an error value with entry i's error
\* number and message.
C14_PerItemFailuresAreData ==
  (/\ BulkDone /\ ~doc.silent /\ doc.resp.is_success
   /\ Len(doc.resp.body) = Len(doc.documents)) =>
    /\ doc.exc = ""
    /\ doc.ret = "list"
    /\ Len(doc.list) = Len(doc.documents)
    /\ \A i \in 1..Len(doc.documents) :
         LET entry == doc.resp.body[i]
             slot == doc.list[i]
         IN IF "_id" \in DOMAIN entry
              THEN /\ slot.kind = "meta"
                   /\ slot.body._id = entry._id
                   /\ slot.body._key = entry._key
                   /\ slot.body._rev = entry._rev
              ELSE /\ slot.kind # "meta"
                   /\ slot.error_code = entry.errorNum
                   /\ slot.error_message = entry.errorMessage

\* C15: in the list a bulk write returns, the slot of a failure entry is a
\* DocumentRevisionError when the entry's error number is 1200 and the
\* operation's own error otherwise.
C15_RevisionConflictIsDistinct ==
  (BulkDone /\ doc.ret = "list") =>
    \A i \in 1..Len(doc.list) :
      "_id" \notin DOMAIN doc.resp.body[i] =>
        doc.list[i].kind = IF doc.resp.body[i].errorNum = 1200
                             THEN "DocumentRevisionError" ELSE OpError(doc.op)

\* C16: a bulk write whose response is not a success raises the
\* operation's error, with or without silent, and returns nothing.
C16_RequestFailureFailsTheCall ==
  (BulkDone /\ doc.sent = 1 /\ ~doc.resp.is_success) =>
    /\ doc.exc = OpError(doc.op)
    /\ doc.ret = ""
    /\ doc.list = <<>>

\* update_many(silent=True) of two documents met a request-level failure
\* and raised DocumentUpdateError.
C16_Witness ==
  /\ BulkDone /\ doc.op = "update_many" /\ doc.silent
  /\ Len(doc.documents) = 2
  /\ doc.sent = 1 /\ doc.resp.status_code = 500
  /\ doc.exc = "DocumentUpdateError" /\ doc.ret = ""

\* C17: in the result of a bulk write, the slot of a success entry with
\* _oldRev is the entry with that key renamed to _old_rev (same value, no
\* _oldRev left); the slot of a success entry without _oldRev is the entry,
\* and the call does not fail on it.
C17_OldRevRenamed ==
  (BulkDone /\ ~doc.silent /\ doc.resp.is_success) =>
    /\ doc.exc = ""
    /\ \A i \in 1..Len(doc.resp.body) :
         LET entry == doc.resp.body[i]
             body == doc.list[i].body
         IN "_id" \in DOMAIN entry =>
              IF "_oldRev" \in DOMAIN entry
                THEN /\ DOMAIN body = (DOMAIN entry \ {"_oldRev"}) \cup {"_old_rev"}
                     /\ body._old_rev = entry._oldRev
                     /\ \A k \in DOMAIN entry \ {"_oldRev"} : body[k] = entry[k]
                ELSE body = entry

\* The reference carries the prefix of another collection: a string with a
\* "/", or the _id of a body, that does not start with '<collection>/'.
Foreign(document, name) ==
  IF document.type = "str"
    THEN HasSlash(document.str) /\ ~OwnedBy(document.str, name)
    ELSE "_id" \in DOMAIN document.body /\ ~OwnedBy(document.body._id, name)

\* The references of the call.
References == IF doc.op \in ManyOps THEN doc.documents ELSE <<doc.document>>

\* C18: a document operation given a reference with the prefix of another
\* collection raises DocumentParseError and sends no request.
C18_ForeignPrefixIsRejected ==
  (/\ doc.stage \in {"raised", "sent", "done"}
   /\ \E i \in 1..Len(References) : Foreign(References[i], coll.name)) =>
    /\ doc.exc = "DocumentParseError"
    /\ doc.sent = 0

\* C19: fetch() on a cursor without an id raises CursorStateError, sends no
\* request and leaves every slot of the cursor as it was.
C19_FetchWithoutIdRaises ==
  [][(call'.op = "fetch" /\ cursor.id = None) =>
       /\ call'.out = Raise("CursorStateError")
       /\ SentNow = 0 /\ call'.sent = 0 /\ resp' = NoResponse
       /\ cursor' = cursor]_vars

\* fetch() has raised CursorStateError on a cursor without an id whose
\* has_more is set and whose rows are still queued.
C19_Witness ==
  /\ call.op = "fetch" /\ call.out = Raise("CursorStateError")
  /\ cursor.id = None /\ cursor.has_more
  /\ cursor.batch = <<1, 2>> /\ requests = <<>>

\* C20 as stated: fetch() on a cursor constructed without an id raises no
\* error.
C20_FetchWithoutIdIsNoop ==
  (call.op = "fetch" /\ cursor.id = None) => call.out.exc = ""

\* C20 as amended: a cursor constructed without an id never gets one and
\* never sends a request; each of its fetch() calls ends in CursorStateError
\* (it does not return), and the rows delivered and queued stay the rows of
\* the construction.
C20_FetchWithoutIdNeverReturns ==
  /\ [](cursor.id = None =>
          /\ requests = <<>>
          /\ call.op = "fetch" =>
               call.out.exc = "CursorStateError" /\ call.out.ret = "")
  /\ [][cursor.id = None =>
          /\ cursor'.id = None
          /\ delivered' \o cursor'.batch = delivered \o cursor.batch]_vars

\* After a row was handed over and the inline result was complete, a
\* fetch() raised CursorStateError.
C20_Witness ==
  /\ call.op = "fetch" /\ call.out.exc = "CursorStateError"
  /\ cursor.id = None /\ ~cursor.has_more
  /\ delivered = <<1>> /\ cursor.batch = <<2>>

\* The value of the diagnostic field f that the body carries, if any
\* (statistics under their public names).
Carried(body, f) ==
  LET extra == IF "extra" \in DOMAIN body THEN body.extra ELSE <<>>
  IN CASE f = "cached" ->
            IF "cached" \in DOMAIN body THEN <<body.cached>> ELSE <<>>
       [] f = "stats" ->
            IF "stats" \in DOMAIN extra
              THEN <<[modified |-> extra.stats.writesExecuted,
                      scanned_full |-> extra.stats.scannedFull]>>
              ELSE <<>>
       [] OTHER -> IF f \in DOMAIN extra THEN <<extra[f]>> ELSE <<>>

Diagnostics == {"cached", "profile", "warnings", "stats"}

\* C21 as stated: after a successful fetch every diagnostic field is that
\* of the fetch's response, empty when the response omits it.
C21_DiagnosticsAreTheLatest ==
  (call.op = "fetch" /\ resp.is_success) =>
    \A f \in Diagnostics : cursor[f] = Carried(resp.body, f)

\* C21 as amended: a successful fetch (and the construction) sets each
\* diagnostic field the response carries to the response's value and leaves
\* each field the response omits as it was.
C21_DiagnosticsMerge ==
  /\ \A f \in Diagnostics : cursor[f] = Carried(resp.body, f)
  /\ [][(call'.op = "fetch" /\ resp'.is_success) =>
          \A f \in Diagnostics :
            cursor'[f] = IF Carried(resp'.body, f) # <<>>
                           THEN Carried(resp'.body, f) ELSE cursor[f]]_vars

\* A successful fetch whose body had neither cached nor extra has left the
\* cached flag, profile, warnings and statistics of an earlier response.
C21_Witness ==
  /\ call.op = "fetch" /\ resp.is_success
  /\ "cached" \notin DOMAIN resp.body /\ "extra" \notin DOMAIN resp.body
  /\ cursor.cached = <<TRUE>> /\ cursor.profile = <<"q">>
  /\ cursor.warnings = <<"w">>
  /\ cursor.stats = <<[modified |-> 1, scanned_full |-> 2]>>

\* The tasks whose continuation request awaits its response.
InFlight == {t \in Tasks : tasks[t].pc = "awaiting"}

\* C22: at most one continuation request of a cursor is in flight at any
\* time, however the next() and fetch() calls of the tasks interleave.
C22_SingleFlight == Cardinality(InFlight) <= 1

\* The call has ended with the handling of a response.
Answered == doc.stage = "done" /\ doc.op \in Ops

\* The generic error of a single-document operation.
GenericError(op) ==
  CASE op = "get" -> "DocumentGetError"
    [] op = "has" -> "DocumentInError"
    [] op = "update" -> "DocumentUpdateError"
    [] op = "replace" -> "DocumentReplaceError"
    [] op = "delete" -> "DocumentDeleteError"

\* C23: in get, has, update, replace and delete of every collection class,
\* a failed response with status 412 or with error number 1200 raises
\* DocumentRevisionError, not the operation's generic error.
C23_RevisionConflictRaisesRevisionError ==
  (/\ Answered /\ ~doc.resp.is_success
   /\ (doc.resp.status_code = 412 \/ doc.resp.error_code = 1200)) =>
    /\ doc.out.exc = "DocumentRevisionError"
    /\ doc.out.exc # GenericError(doc.op)

\* C24: delete() answered with error number 1202 returns False when
\* ignore_missing was passed and raises when it was not; delete() returns
\* False in no other case.
C24_DeleteNotFound ==
  (Answered /\ doc.op = "delete") =>
    /\ (doc.resp.error_code = 1202 /\ doc.ignore_missing) =>
         doc.out = Return("False")
    /\ (doc.resp.error_code = 1202 /\ ~doc.ignore_missing) =>
         doc.out = Raise("DocumentDeleteError")
    /\ doc.out.ret = "False" =>
         doc.ignore_missing /\ doc.resp.error_code = 1202

\* The delete() of a vertex without ignore_missing was answered with 404
\* and 1202 and raised DocumentDeleteError.
C24_Witness ==
  /\ Answered /\ doc.op = "delete" /\ doc.kind = "vertex"
  /\ ~doc.ignore_missing
  /\ doc.resp.status_code = 404 /\ doc.resp.error_code = 1202
  /\ doc.out = Raise("DocumentDeleteError")

\* C25: a fetch, explicit or triggered by next(), whose response is not a
\* success raises CursorNextError out of the call, has sent exactly one
\* request and leaves every slot of the cursor (batch, has_more, id,
\* count, cached, profile, warnings, stats) as it was before the call.
C25_FailedFetchChangesNothing ==
  [][(/\ call'.op \in {"fetch", "next"}
      /\ call'.sent = 1 /\ ~resp'.is_success) =>
       /\ call'.out = Raise("CursorNextError")
       /\ call'.fetches = 1
       /\ SentNow = 1
       /\ requests'[Len(requests')] = [method |-> "put", id |-> cursor.id]
       /\ cursor' = cursor]_vars

\* A next() on an empty queue with has_more set has sent its one request,
\* received a failure and raised CursorNextError; the cursor still has no
\* row queued and has_more set.
C25_Witness ==
  /\ call.op = "next" /\ call.out = Raise("CursorNextError")
  /\ call.sent = 1 /\ ~resp.is_success
  /\ empty(cursor) /\ cursor.has_more /\ cursor.id # None

\* C26: next() never fails with CursorEmptyError; when the fetch it
\* triggers succeeds with zero rows and hasMore false, it raises
\* StopAsyncIteration.
C26_NextNeverRaisesEmpty ==
  call.op = "next" =>
    /\ call.out.exc # "CursorEmptyError"
    /\ (/\ call.fetches = 1 /\ resp.is_success
        /\ resp.body.result = <<>> /\ ~resp.body.hasMore) =>
         call.out = Raise("StopAsyncIteration")

\* The cursor is exhausted: no row queued and has_more unset.
Exhausted(c) == empty(c) /\ ~c.has_more

\* C27: a next() that raised StopAsyncIteration found the cursor
\* exhausted; from an exhausted cursor every call other than fetch()
\* leaves the cursor as it is, and a next() raises StopAsyncIteration
\* without a request or a fetch; no next() sets has_more that was unset.
C27_ExhaustionIsStable ==
  /\ [](call.out = Raise("StopAsyncIteration") =>
          call.op = "next" /\ Exhausted(cursor))
  /\ [][(Exhausted(cursor) /\ call'.op # "fetch") =>
          /\ cursor' = cursor
          /\ call'.op = "next" =>
               /\ call'.out = Raise("StopAsyncIteration")
               /\ SentNow = 0 /\ call'.sent = 0 /\ call'.fetches = 0
               /\ stopped']_vars
  /\ [][(call'.op = "next" /\ ~cursor.has_more) => ~cursor'.has_more]_vars

\* A next() on an exhausted cursor that has an id, after an earlier request,
\* raised StopAsyncIteration and sent nothing.
C27_Witness ==
  /\ call.op = "next" /\ call.out = Raise("StopAsyncIteration")
  /\ call.sent = 0 /\ cursor.id # None /\ Exhausted(cursor)
  /\ Len(requests) >= 1 /\ Len(delivered) >= 1

\* C28: against a server with a finite result set that hands out at least
\* one row per continuation, a caller that keeps calling next() eventually
\* gets StopAsyncIteration; by then it has received every row the server
\* handed out, each once and in order, and every request it caused was one
\* PUT that brought one continuation batch.
C28_DrainTerminates ==
  /\ <>stopped
  /\ [](stopped => /\ delivered = Received
                   /\ empty(cursor) /\ ~cursor.has_more
                   /\ Len(requests) <= srvRows)
  /\ [](delivered \o cursor.batch = Received)
  /\ [][/\ SentNow \in {0, 1}
        /\ SentNow = 1 <=> (empty(cursor) /\ cursor.has_more)
        /\ SentNow = 1 <=> srvRows' > srvRows
        /\ SentNow = 1 => /\ requests'[Len(requests')].method = "put"
                          /\ srvRows' = srvRows + Len(resp'.body.result)]_vars

\* The caller has drained a result set of three rows that came as the
\* initial batch and two continuation batches.
C28_Witness ==
  /\ stopped /\ delivered = <<1, 2, 3>>
  /\ Len(requests) = 2
  /\ call.out = Raise("StopAsyncIteration")

\* The id a reference carries, if it carries one.
IdOf(document) ==
  IF document.type = "str"
    THEN IF HasSlash(document.str) THEN Some(document.str) ELSE None
    ELSE IF "_id" \in DOMAIN document.body
      THEN Some(document.body._id) ELSE None

\* C29: the id prefix of a wrapper is always its name followed by '/'.  A
\* successful rename(new) stores the new name and its prefix together and
\* returns True, a failed one raises CollectionRenameError and changes
\* neither.  A reference is resolved against the current name: an id
\* prefixed with it is the handle of the request, any other id raises
\* DocumentParseError before any request.
C29_PrefixFollowsName ==
  /\ [](coll.id_prefix = coll.name \o <<"/">>)
  /\ [][doc'.op = "rename" =>
          IF doc'.resp.is_success
            THEN /\ coll' = Collection(doc'.new_name)
                 /\ doc'.out = Return("True")
            ELSE /\ coll' = coll
                 /\ doc'.out = Raise("CollectionRenameError")]_vars
  /\ []((doc.stage \in {"raised", "sent"} /\ IdOf(doc.document) # None) =>
          IF IsPrefix(coll.name \o <<"/">>, IdOf(doc.document)[1])
            THEN /\ doc.stage = "sent" /\ doc.sent = 1
                 /\ doc.handle = IdOf(doc.document)[1]
            ELSE /\ doc.stage = "raised" /\ doc.sent = 0
                 /\ doc.exc = "DocumentParseError")

\* The collection was renamed to 'b'; afterwards the id 'a/a' of the old
\* name was rejected with DocumentParseError.
C29_Witness ==
  /\ coll = Collection(<<"b">>)
  /\ doc.stage = "raised" /\ doc.exc = "DocumentParseError"
  /\ doc.document = StrDoc(<<"a", "/", "a">>)

RECURSIVE Flatten(_)
\* The concatenation of a list of lists.
Flatten(ss) == IF ss = <<>> THEN <<>> ELSE Head(ss) \o Flatten(Tail(ss))

\* The input document with the _key import_bulk derives from its _id.
Keyed(c, body) == _ensure_key_from_id(c, body).val

\* C30: import_bulk with a batch_size b and overwrite not True, once its
\* documents are prepared: the batches concatenate to the input list (its
\* documents in order, each with its key), each batch has 1..b documents
\* and every batch but the last has b; the requests sent are the first
\* batches in order, one per result collected or failure received; a
\* failure of request k raises DocumentInsertError with k requests sent
\* and the documents of requests 1..k-1 still imported; a call that
\* returned has sent every batch.  With overwrite True and a batch_size the
\* call raises ValueError and sends no request.
C30_ImportInBatches ==
  /\ (/\ doc.stage \in {"sending", "done"}
      /\ doc.overwrite = Some(TRUE) /\ doc.batch_size # None) =>
       /\ doc.stage = "done" /\ doc.out = Raise("ValueError")
       /\ doc.requests = <<>> /\ doc.stored = <<>>
  /\ (/\ doc.stage \in {"sending", "done"}
      /\ doc.overwrite # Some(TRUE) /\ doc.batch_size # None
      /\ doc.out.exc # "DocumentParseError") =>
       LET b == doc.batch_size[1]
           n == Len(doc.batches)
           k == Len(doc.requests)
       IN /\ Flatten(doc.batches) =
               [i \in 1..Len(doc.documents) |-> Keyed(coll, doc.documents[i])]
          /\ \A i \in 1..n : /\ Len(doc.batches[i]) \in 1..b
                             /\ i < n => Len(doc.batches[i]) = b
          /\ k <= n /\ doc.requests = SubSeq(doc.batches, 1, k)
          /\ doc.out.exc \in {"", "DocumentInsertError"}
          /\ doc.out = Raise("DocumentInsertError") <=>
               (k >= 1 /\ ~doc.resp.is_success)
          /\ doc.out = Raise("DocumentInsertError") =>
               /\ doc.stage = "done" /\ doc.results = k - 1
               /\ doc.stored = Flatten(SubSeq(doc.batches, 1, k - 1))
          /\ doc.out.exc = "" =>
               /\ doc.results = k
               /\ doc.stored = Flatten(doc.requests)
               /\ doc.stage = "done" <=> k = n
               /\ doc.stage = "done" => doc.out = Return("list")

\* Three documents were imported with batch_size 2: the first batch of two
\* documents was imported, the request of the second batch (one document)
\* failed, and the call raised DocumentInsertError with the first batch
\* still imported.
C30_Witness ==
  /\ doc.stage = "done" /\ doc.op = "import_bulk"
  /\ doc.batch_size = Some(2) /\ Len(doc.documents) = 3
  /\ doc.out = Raise("DocumentInsertError")
  /\ Len(doc.requests) = 2 /\ Len(doc.requests[2]) = 1
  /\ Len(doc.stored) = 2
====
